---- MODULE Spec2Model ----
(***************************************************************************)
(* The /calculate endpoint of examples/python/simple_fastapi_example.py:   *)
(* validate_input, calculate_sum, process_data_async and calculate_endpoint *)
(* as run by an asyncio event loop that serves several requests at once.    *)
(*                                                                         *)
(* Python integers are unbounded and `total / len(data)` is a float        *)
(* division, so integers are kept as sign and magnitude, the magnitude a   *)
(* set of bit positions, and the division is rounded to the 53-bit        *)
(* significand of a double the way CPython rounds it.                      *)
(***************************************************************************)
EXTENDS Integers, Sequences, FiniteSets, TLC

VARIABLES pc, req, numbers, events, interleaved

vars == <<pc, req, numbers, events, interleaved>>

(***************************************************************************)
(* Bounds of the model.                                                    *)
(***************************************************************************)
\* Longest request body (number of list elements) of an arbitrary request.
MaxLen == 2
\* Number of requests that can be in flight at the same time.
NReq == 2

(***************************************************************************)
(* Python int: arbitrary precision, sign and magnitude.  A magnitude is    *)
(* the set of the positions of the 1 bits of its binary expansion, so that *)
(* zero is {} and 2^k is {k}.                                              *)
(***************************************************************************)
RECURSIVE Pow2(_)
Pow2(k) == IF k = 0 THEN 1 ELSE 2 * Pow2(k - 1)

\* Bits needed to write a small natural.
RECURSIVE SmallBitLen(_)
SmallBitLen(k) == IF k = 0 THEN 0 ELSE 1 + SmallBitLen(k \div 2)

\* The magnitude of a small natural.
MagOfNat(k) == {i \in 0..(SmallBitLen(k) - 1) : (k \div Pow2(i)) % 2 = 1}

MaxBit(m) ==
  LET neg == {0 - i : i \in m}
  IN  0 - (CHOOSE x \in neg : \A y \in neg : x <= y)

BitLen(m) == IF m = {} THEN 0 ELSE MaxBit(m) + 1

Bit(m, i) == IF i \in m THEN 1 ELSE 0

\* Some bit below bit k is set.
LowBitsNonZero(m, k) == \E i \in m : i < k

ShiftRight(m, k) == {i - k : i \in {j \in m : j >= k}}

ShiftLeft(m, k) == {i + k : i \in m}

\* The carry into bit i of a + b, from the bits that generate a carry (both
\* set) and the bits that pass one on (either set): some lower bit generates
\* it and every bit in between passes it on.
Carry(generate, propagate, i) ==
  \E j \in generate : j < i /\ \A k \in (j + 1)..(i - 1) : k \in propagate

MagAdd(a, b) ==
  LET generate == a \cap b
      propagate == a \cup b
  IN  {i \in propagate \cup {p + 1 : p \in propagate} :
         ((i \in a) # (i \in b)) # Carry(generate, propagate, i)}

\* -1, 0 or 1 as a < b, a = b or a > b.
MagCmp(a, b) ==
  IF a = b THEN 0
  ELSE IF MaxBit((a \ b) \cup (b \ a)) \in a THEN 1 ELSE -1

\* The borrow into bit i of a - b, from the bits that ask for one (0 over 1)
\* and the bits that pay one (1 over 0): some lower bit asks for it and no
\* bit in between pays it.
Borrow(ask, pay, i) ==
  \E j \in ask : j < i /\ \A k \in pay : ~(j < k /\ k < i)

\* a - b for a >= b.
MagSub(a, b) ==
  LET ask == b \ a
      pay == a \ b
  IN  {i \in 0..(BitLen(a) - 1) : ((i \in a) # (i \in b)) # Borrow(ask, pay, i)}

\* 2^k mod n
RECURSIVE Pow2Mod(_, _)
Pow2Mod(k, n) ==
  IF k = 0 THEN 1 % n
  ELSE LET h == Pow2Mod(k \div 2, n)
       IN  (h * h * (IF k % 2 = 1 THEN 2 ELSE 1)) % n

\* The sum of 2^(j - i) mod n over the bits j of m in lo..hi, mod n.
RECURSIVE SumPow2Mod(_, _, _, _, _)
SumPow2Mod(m, i, n, lo, hi) ==
  IF ~(\E j \in m : lo <= j /\ j <= hi) THEN 0
  ELSE IF lo = hi THEN Pow2Mod(lo - i, n)
  ELSE LET mid == (lo + hi) \div 2
       IN  (SumPow2Mod(m, i, n, lo, mid) + SumPow2Mod(m, i, n, mid + 1, hi)) % n

\* (a div 2^i) mod n for a small positive n.
ShiftedMod(a, i, n) == SumPow2Mod(a, i, n, i, BitLen(a) - 1)

\* Bit i of a div n: schoolbook division, one bit at a time from the top.
QuotBit(a, n, i) ==
  IF 2 * ShiftedMod(a, i + 1, n) + Bit(a, i) >= n THEN 1 ELSE 0

\* Quotient and remainder of a magnitude by a small positive n.
MagDivMod(a, n) ==
  [q |-> {i \in 0..(BitLen(a) - 1) : QuotBit(a, n, i) = 1},
   r |-> ShiftedMod(a, 0, n)]

MkInt(neg, mag) == [neg |-> neg /\ mag # {}, mag |-> mag]

\* A small TLA+ integer as a Python int.
PyInt(k) == IF k < 0 THEN MkInt(TRUE, MagOfNat(-k)) ELSE MkInt(FALSE, MagOfNat(k))

PyPow2(k) == MkInt(FALSE, {k})

IntAdd(x, y) ==
  IF x.neg = y.neg THEN MkInt(x.neg, MagAdd(x.mag, y.mag))
  ELSE IF MagCmp(x.mag, y.mag) >= 0 THEN MkInt(x.neg, MagSub(x.mag, y.mag))
  ELSE MkInt(y.neg, MagSub(y.mag, x.mag))

\* n < 0
IntIsNegative(n) == n.neg

\* x // n for a small positive n (floor division).
IntFloorDiv(x, n) ==
  LET d == MagDivMod(x.mag, n)
  IN  IF x.neg /\ d.r # 0 THEN MkInt(TRUE, MagAdd(d.q, {0}))
      ELSE MkInt(x.neg, d.q)

(***************************************************************************)
(* Python float: IEEE 754 binary64.  A finite value is                     *)
(* (-1)^neg * mant * 2^exp with mant below 2^DBL_MANT_DIG.                  *)
(***************************************************************************)
DBL_MANT_DIG == 53
DBL_MAX_EXP == 1024

\* Number of bits of a div n, for a >= n.
QuotBitLen(a, n) ==
  LET top == BitLen(a) - SmallBitLen(n)
  IN  IF QuotBit(a, n, top) = 1 THEN top + 1 ELSE top

\* x / n (int.__truediv__) for a small positive n: the quotient rounded to
\* nearest, ties to even; OverflowError when the rounded quotient does not
\* fit a double.
TrueDivide(x, n) ==
  LET a == x.mag
      L == IF MagCmp(a, MagOfNat(n)) >= 0 THEN QuotBitLen(a, n) ELSE 0
  IN  IF a = {}
        THEN [overflow |-> FALSE, neg |-> FALSE, mant |-> {}, exp |-> 0]
      ELSE IF L > DBL_MANT_DIG
        THEN \* the quotient has more bits than the significand holds
             LET sh   == L - DBL_MANT_DIG
                 d    == MagDivMod(ShiftRight(a, sh - 1), n)
                 m0   == ShiftRight(d.q, 1)
                 half == 0 \in d.q
                 rest == d.r # 0 \/ LowBitsNonZero(a, sh - 1)
                 up   == half /\ (rest \/ 0 \in m0)
                 m    == IF up THEN MagAdd(m0, {0}) ELSE m0
             IN  [overflow |-> BitLen(m) + sh > DBL_MAX_EXP,
                  neg |-> x.neg, mant |-> m, exp |-> sh]
        ELSE \* scale the dividend so that the quotient has exactly 53 bits
             LET lead == CHOOSE j \in 0..SmallBitLen(n) :
                           /\ MagCmp(ShiftLeft(a, j), MagOfNat(n)) >= 0
                           /\ \A i \in 0..(j - 1) :
                                MagCmp(ShiftLeft(a, i), MagOfNat(n)) < 0
                 s    == IF L > 0 THEN DBL_MANT_DIG - L
                         ELSE DBL_MANT_DIG - 1 + lead
                 e    == MagDivMod(ShiftLeft(a, s), n)
                 up   == 2 * e.r > n \/ (2 * e.r = n /\ 0 \in e.q)
                 m    == IF up THEN MagAdd(e.q, {0}) ELSE e.q
             IN  [overflow |-> FALSE, neg |-> x.neg, mant |-> m, exp |-> -s]

\* int(f): truncation toward zero.
FloatToInt(f) ==
  IF f.exp >= 0 THEN MkInt(f.neg, ShiftLeft(f.mant, f.exp))
  ELSE MkInt(f.neg, ShiftRight(f.mant, -f.exp))

(***************************************************************************)
(* Requests and request bodies.                                            *)
(***************************************************************************)
Requests == 1..NReq

\* The list elements tried: a negative number, zero, a small number, a
\* number that no double holds exactly (2^53 + 1) and a number beyond the
\* range of a double (2^1024).
Vals ==
  {PyInt(-1), PyInt(0), PyInt(3), IntAdd(PyPow2(DBL_MANT_DIG), PyInt(1)),
   PyPow2(DBL_MAX_EXP)}

\* Every list of at most MaxLen of these elements.
Bodies == UNION {[1..n -> Vals] : n \in 0..MaxLen}

\* The bodies of the requests in flight beside request 1, unless they
\* repeat the body of request 1: rejected, served, failed in the division.
TrafficBodies == {<<PyInt(-1)>>, <<PyInt(3)>>, <<PyPow2(DBL_MAX_EXP)>>}

(***************************************************************************)
(* What a handler does that can be seen from outside, in program order:    *)
(* the records it hands to the logger and the response it ends with.       *)
(***************************************************************************)
LogRecord(level, msg) == [kind |-> "log", level |-> level, msg |-> msg]

LogRecordWith(level, msg, args) ==
  [kind |-> "log", level |-> level, msg |-> msg, args |-> args]

\* What FastAPI sends for a value returned by the handler.
JSONResponse(content) ==
  [kind |-> "response", status_code |-> 200, content |-> content]

HTTPException(status_code, detail) ==
  [type |-> "HTTPException", status_code |-> status_code, detail |-> detail]

\* What FastAPI sends for an HTTPException raised by the handler.
HTTPExceptionResponse(e) ==
  [kind |-> "response", status_code |-> e.status_code,
   content |-> [detail |-> e.detail]]

\* Raised by int / int when the quotient does not fit a float.
OverflowError ==
  [type |-> "OverflowError",
   message |-> "integer division result too large for a float"]

\* str(e): Starlette's HTTPException prints as "<status_code>: <detail>",
\* a built-in exception as its message.
Str(e) ==
  IF e.type = "HTTPException"
    THEN ToString(e.status_code) \o ": " \o e.detail
    ELSE e.message

(***************************************************************************)
(* calculate_sum                                                           *)
(***************************************************************************)
\* sum(numbers): from 0, left to right.
RECURSIVE PySum(_)
PySum(xs) ==
  IF xs = <<>> THEN PyInt(0)
  ELSE IntAdd(PySum(SubSeq(xs, 1, Len(xs) - 1)), xs[Len(xs)])

calculate_sum(nums) ==
  LET result == PySum(nums)
  IN  [ret |-> result,
       log |-> <<LogRecordWith("info", "Calculating sum of {len(numbers)} numbers",
                               [len |-> Len(nums)]),
                 LogRecordWith("info", "Sum calculated: {result}",
                               [result |-> result])>>]

(***************************************************************************)
(* validate_input: what it returns, what it logs, and the list it was      *)
(* given as the call leaves it.                                            *)
(***************************************************************************)
\* Mutant: `n <= 0` for `n < 0`.
validate_input_rejects_zero(nums) ==
  IF nums = <<>>
    THEN [ret |-> FALSE, numbers |-> nums,
          log |-> <<LogRecord("info", "Validating input data"),
                    LogRecord("warning", "Empty input provided")>>]
  ELSE IF \E i \in 1..Len(nums) : IntIsNegative(nums[i]) \/ nums[i] = PyInt(0)
    THEN [ret |-> FALSE, numbers |-> nums,
          log |-> <<LogRecord("info", "Validating input data"),
                    LogRecord("warning", "Negative numbers found in input")>>]
  ELSE [ret |-> TRUE, numbers |-> nums,
        log |-> <<LogRecord("info", "Validating input data"),
                  LogRecord("info", "Input validation passed")>>]

validate_input(nums) ==
  IF nums = <<>>
    THEN [ret |-> FALSE, numbers |-> nums,
          log |-> <<LogRecord("info", "Validating input data"),
                    LogRecord("warning", "Empty input provided")>>]
  ELSE IF \E i \in 1..Len(nums) : IntIsNegative(nums[i])
    THEN [ret |-> FALSE, numbers |-> nums,
          log |-> <<LogRecord("info", "Validating input data"),
                    LogRecord("warning", "Negative numbers found in input")>>]
  ELSE [ret |-> TRUE, numbers |-> nums,
        log |-> <<LogRecord("info", "Validating input data"),
                  LogRecord("info", "Input validation passed")>>]

(***************************************************************************)
(* process_data_async: the part before `await asyncio.sleep(0.1)` and the  *)
(* part after it.                                                          *)
(***************************************************************************)
process_data_async_start(data) ==
  [log |-> <<LogRecord("info", "Starting async data processing")>>]

process_data_async_resume(data) ==
  LET s       == calculate_sum(data)
      total   == s.ret
      average == TrueDivide(total, Len(data))
  IN  IF data # <<>> /\ average.overflow
        THEN [raised |-> TRUE, exc |-> OverflowError, log |-> s.log]
        ELSE LET result ==
                   [total   |-> total,
                    average |-> IF data # <<>> THEN FloatToInt(average)
                                ELSE PyInt(0),
                    count   |-> Len(data)]
             IN  [raised |-> FALSE, ret |-> result,
                  log |-> s.log \o
                          <<LogRecordWith("info",
                                          "Data processing completed: {result}",
                                          [result |-> result])>>]

\* The value a table of <<argument, value>> pairs holds for b.
Lookup(table, b) == (CHOOSE p \in table : p[1] = b)[2]

\* The part after the await, for every body: computed once.
ResumedTable == {<<b, process_data_async_resume(b)>> : b \in Bodies}

Resumed(b) == Lookup(ResumedTable, b)

(***************************************************************************)
(* calculate_endpoint                                                      *)
(***************************************************************************)
\* Mutant: the detail is str(e) alone.
except_handler_no_prefix(e) ==
  <<LogRecord("error", "Error in calculation: " \o Str(e)),
    HTTPExceptionResponse(HTTPException(500, Str(e)))>>

\* Mutant: the error is not logged.
except_handler_no_log(e) ==
  <<HTTPExceptionResponse(
      HTTPException(500, "Calculation failed: " \o Str(e)))>>

\* except Exception as e: log the error, raise HTTPException(500).
except_handler(e) ==
  <<LogRecord("error", "Error in calculation: " \o Str(e)),
    HTTPExceptionResponse(
      HTTPException(500, "Calculation failed: " \o Str(e)))>>

\* Mutant: the result of validate_input is ignored.
calculate_endpoint_start_unchecked(nums) ==
  LET entry == <<LogRecordWith("info",
                               "Calculate endpoint called with {len(numbers)} numbers",
                               [len |-> Len(nums)])>>
      v     == validate_input(nums)
  IN  [pc |-> "suspended", numbers |-> v.numbers,
       events |-> entry \o v.log \o process_data_async_start(v.numbers).log]

\* From the call to the first await, or to the response when validation
\* fails: the HTTPException(400) is raised inside the try block.
calculate_endpoint_start(nums) ==
  LET entry == <<LogRecordWith("info",
                               "Calculate endpoint called with {len(numbers)} numbers",
                               [len |-> Len(nums)])>>
      v     == validate_input(nums)
  IN  IF ~v.ret
        THEN [pc |-> "responded", numbers |-> v.numbers,
              events |-> entry \o v.log \o
                         except_handler(
                           HTTPException(400,
                             "Invalid input: empty list or negative numbers"))]
        ELSE [pc |-> "suspended", numbers |-> v.numbers,
              events |-> entry \o v.log \o
                         process_data_async_start(v.numbers).log]

\* From the resumption of process_data_async to the response.
calculate_endpoint_resume(nums) ==
  LET p == Resumed(nums)
  IN  IF p.raised
        THEN p.log \o except_handler(p.exc)
        ELSE p.log \o
             <<LogRecord("info", "Calculation completed successfully"),
               JSONResponse([status |-> "success", data |-> p.ret])>>

\* The handler from the call to the response, nothing else running.
calculate_endpoint(nums) ==
  LET s == calculate_endpoint_start(nums)
  IN  IF s.pc = "suspended"
        THEN s.events \o calculate_endpoint_resume(s.numbers)
        ELSE s.events

\* The handler with `await asyncio.sleep(0.1)` removed from
\* process_data_async: it runs from the call to the response in one piece.
calculate_endpoint_nosuspend(nums) ==
  LET entry == <<LogRecordWith("info",
                               "Calculate endpoint called with {len(numbers)} numbers",
                               [len |-> Len(nums)])>>
      v     == validate_input(nums)
      p     == Resumed(v.numbers)
  IN  IF ~v.ret
        THEN entry \o v.log \o
             except_handler(
               HTTPException(400,
                 "Invalid input: empty list or negative numbers"))
      ELSE IF p.raised
        THEN entry \o v.log \o process_data_async_start(v.numbers).log \o
             p.log \o except_handler(p.exc)
      ELSE entry \o v.log \o process_data_async_start(v.numbers).log \o
           p.log \o
           <<LogRecord("info", "Calculation completed successfully"),
             JSONResponse([status |-> "success", data |-> p.ret])>>

\* The handler up to its first await, for every body: computed once.
StartedTable == {<<b, calculate_endpoint_start(b)>> : b \in Bodies}

Started(b) == Lookup(StartedTable, b)

\* The handler without the suspension, for every body: computed once.
UnsuspendedTable == {<<b, calculate_endpoint_nosuspend(b)>> : b \in Bodies}

Unsuspended(b) == Lookup(UnsuspendedTable, b)

(***************************************************************************)
(* The event loop.  A handler runs without interruption from one await to  *)
(* the next, so each action is one such stretch.                           *)
(***************************************************************************)
Init ==
  /\ pc = [r \in Requests |-> "idle"]
  /\ req = [r \in Requests |-> <<>>]
  /\ numbers = [r \in Requests |-> <<>>]
  /\ events = [r \in Requests |-> <<>>]
  /\ interleaved = [r \in Requests |-> FALSE]

\* Request 1 carries any body; a request beside it carries a traffic body
\* or repeats the body of request 1, so that at most one body outside
\* TrafficBodies is in flight.
Admissible(r, b) ==
  IF r = 1
    THEN \A q \in Requests \ {1} :
           pc[q] = "idle" \/ req[q] \in TrafficBodies \/ req[q] = b
    ELSE b \in TrafficBodies \/ (pc[1] # "idle" /\ b = req[1])

\* POST /calculate with body b arrives and its handler runs to its first
\* await, or to its response.
Receive(r, b) ==
  /\ pc[r] = "idle"
  /\ Admissible(r, b)
  /\ pc' = [pc EXCEPT ![r] = Started(b).pc]
  /\ req' = [req EXCEPT ![r] = b]
  /\ numbers' = [numbers EXCEPT ![r] = Started(b).numbers]
  /\ events' = [events EXCEPT ![r] = Started(b).events]
  /\ UNCHANGED interleaved

\* Mutant: a failed aggregation is retried from the start of the handler.
ResumeRetry(r) ==
  /\ pc[r] = "suspended"
  /\ IF Resumed(numbers[r]).raised
       THEN /\ events' = [events EXCEPT
                            ![r] = events[r] \o Resumed(numbers[r]).log \o
                                   Started(numbers[r]).events]
            /\ UNCHANGED <<pc, interleaved>>
       ELSE /\ pc' = [pc EXCEPT ![r] = "responded"]
            /\ events' = [events EXCEPT
                            ![r] = events[r] \o
                                   calculate_endpoint_resume(numbers[r])]
            /\ interleaved' =
                 [interleaved EXCEPT
                    ![r] = \E q \in Requests \ {r} : pc[q] = "suspended"]
  /\ UNCHANGED <<req, numbers>>

\* Mutant: the count comes from a counter that every response advances.
ResumeCounting(r) ==
  /\ pc[r] = "suspended"
  /\ pc' = [pc EXCEPT ![r] = "responded"]
  /\ LET p == Resumed(numbers[r])
          n == Cardinality({q \in Requests : pc[q] = "responded"})
     IN  events' =
           [events EXCEPT
              ![r] = IF p.raised
                       THEN events[r] \o calculate_endpoint_resume(numbers[r])
                       ELSE events[r] \o p.log \o
                            <<LogRecord("info", "Calculation completed successfully"),
                              JSONResponse(
                                [status |-> "success",
                                 data |-> [p.ret EXCEPT !.count = @ + n]])>>]
  /\ interleaved' = [interleaved EXCEPT
                       ![r] = \E q \in Requests \ {r} : pc[q] = "suspended"]
  /\ UNCHANGED <<req, numbers>>

\* Mutant: the list is kept in a variable that all handlers share, so that
\* a resumed handler reads the list of the first suspended one.
ResumeShared(r) ==
  /\ pc[r] = "suspended"
  /\ pc' = [pc EXCEPT ![r] = "responded"]
  /\ LET q == CHOOSE q \in Requests :
                 /\ pc[q] = "suspended"
                 /\ \A p \in Requests : pc[p] = "suspended" => q <= p
     IN  events' = [events EXCEPT
                      ![r] = events[r] \o calculate_endpoint_resume(numbers[q])]
  /\ interleaved' = [interleaved EXCEPT
                       ![r] = \E q \in Requests \ {r} : pc[q] = "suspended"]
  /\ UNCHANGED <<req, numbers>>

\* Mutant: after the sleep the handler reads the list of the request that
\* arrived meanwhile.
ResumeStale(r) ==
  /\ pc[r] = "suspended"
  /\ pc' = [pc EXCEPT ![r] = "responded"]
  /\ LET others == {q \in Requests \ {r} : pc[q] # "idle"}
          q      == IF others = {} THEN r ELSE CHOOSE q \in others : TRUE
     IN  events' = [events EXCEPT
                      ![r] = events[r] \o calculate_endpoint_resume(numbers[q])]
  /\ interleaved' = [interleaved EXCEPT
                       ![r] = \E q \in Requests \ {r} : pc[q] = "suspended"]
  /\ UNCHANGED <<req, numbers>>

\* The sleep of request r is over and its handler runs to its response.
Resume(r) ==
  /\ pc[r] = "suspended"
  /\ pc' = [pc EXCEPT ![r] = "responded"]
  /\ events' = [events EXCEPT
                  ![r] = events[r] \o calculate_endpoint_resume(numbers[r])]
  /\ interleaved' = [interleaved EXCEPT
                       ![r] = \E q \in Requests \ {r} : pc[q] = "suspended"]
  /\ UNCHANGED <<req, numbers>>

\* The response of request r has been sent; nothing of the request is kept.
Deliver(r) ==
  /\ pc[r] = "responded"
  /\ pc' = [pc EXCEPT ![r] = "idle"]
  /\ req' = [req EXCEPT ![r] = <<>>]
  /\ numbers' = [numbers EXCEPT ![r] = <<>>]
  /\ events' = [events EXCEPT ![r] = <<>>]
  /\ interleaved' = [interleaved EXCEPT ![r] = FALSE]

Next ==
  \E r \in Requests :
    \/ \E b \in Bodies : Receive(r, b)
    \/ Resume(r)
    \/ Deliver(r)

Spec == Init /\ [][Next]_vars

\* The event loop resumes every handler whose sleep is over.
FairSpec == Spec /\ \A r \in Requests : WF_vars(Resume(r))

\* POST /calculate arrives at the handler without the suspension.
ReceiveNoSuspend(r, b) ==
  /\ pc[r] = "idle"
  /\ Admissible(r, b)
  /\ pc' = [pc EXCEPT ![r] = "responded"]
  /\ req' = [req EXCEPT ![r] = b]
  /\ numbers' = [numbers EXCEPT ![r] = validate_input(b).numbers]
  /\ events' = [events EXCEPT ![r] = Unsuspended(b)]
  /\ UNCHANGED interleaved

\* Request 1 goes to the handler without the suspension, the requests
\* beside it to the handler as written.
NextNoSuspend ==
  \E r \in Requests :
    \/ \E b \in Bodies : r = 1 /\ ReceiveNoSuspend(r, b)
    \/ \E b \in Bodies : r # 1 /\ Receive(r, b)
    \/ Resume(r)
    \/ Deliver(r)

SpecNoSuspend == Init /\ [][NextNoSuspend]_vars

(***************************************************************************)
(* Properties.                                                             *)
(***************************************************************************)
\* The responses request r has been given.
Responses(r) == SelectSeq(events[r], LAMBDA e : e.kind = "response")

\* The places of the log records with message msg among the events of r.
LogIndexes(r, msg) ==
  {i \in 1..Len(events[r]) :
     events[r][i].kind = "log" /\ events[r][i].msg = msg}

HasLog(r, msg) == LogIndexes(r, msg) # {}

\* The list is empty or holds a negative number.
Rejected(b) == b = <<>> \/ \E i \in 1..Len(b) : IntIsNegative(b[i])

\* The handler run alone, for every body: computed once.
AloneTable == {<<b, calculate_endpoint(b)>> : b \in Bodies}

Alone(b) == Lookup(AloneTable, b)

Huge == PyPow2(DBL_MAX_EXP)

IsErrorResponse(e) == e.kind = "response" /\ e.status_code >= 400

\* C1: a request whose body the validator rejects (empty, or with a negative
\* number) is answered with status 400 and the detail
\* "Invalid input: empty list or negative numbers".
C1_RejectedIs400 ==
  \A r \in Requests :
    (pc[r] = "responded" /\ Rejected(req[r])) =>
      Responses(r) =
        <<[kind |-> "response", status_code |-> 400,
           content |->
             [detail |-> "Invalid input: empty list or negative numbers"]]>>

\* C2: a non-empty list S of non-negative integers is answered with the
\* success envelope holding total = sum(S), average = sum(S) // len(S) and
\* count = len(S).
C2_SuccessEnvelope ==
  \A r \in Requests :
    (pc[r] = "responded" /\ ~Rejected(req[r])) =>
      Responses(r) =
        <<[kind |-> "response", status_code |-> 200,
           content |->
             [status |-> "success",
              data |-> [total   |-> PySum(req[r]),
                        average |-> IntFloorDiv(PySum(req[r]), Len(req[r])),
                        count   |-> Len(req[r])]]]>>

\* C3: validate_input returns false exactly when the list is empty or holds
\* a negative number and true otherwise; it returns (the record after
\* "Validating input data" is one of its own, and the one of its return
\* value), and the list is as it was.
C3_ValidatorContract ==
  \A r \in Requests :
    pc[r] # "idle" =>
      /\ numbers[r] = req[r]
      /\ \A i \in LogIndexes(r, "Validating input data") :
           /\ i < Len(events[r])
           /\ events[r][i + 1].kind = "log"
           /\ IF Rejected(req[r])
                THEN /\ events[r][i + 1].level = "warning"
                     /\ events[r][i + 1].msg =
                          (IF req[r] = <<>> THEN "Empty input provided"
                           ELSE "Negative numbers found in input")
                ELSE events[r][i + 1] =
                       LogRecord("info", "Input validation passed")
      /\ HasLog(r, "Validating input data")
      /\ HasLog(r, "Input validation passed") = ~Rejected(req[r])

C3_Witness ==
  \E r \in Requests :
    /\ pc[r] = "responded"
    /\ req[r] = <<PyInt(0), PyInt(-1)>>
    /\ HasLog(r, "Negative numbers found in input")
    /\ \E q \in Requests :
         /\ pc[q] # "idle"
         /\ req[q] = <<PyInt(3)>>
         /\ HasLog(q, "Input validation passed")

\* C4: when process_data_async raises an exception with message m for a
\* request that passed validation, the response is status 500 with detail
\* "Calculation failed: m", and there is no other response.
C4_AggregationFailureIs500 ==
  \A r \in Requests :
    (pc[r] = "responded" /\ ~Rejected(req[r]) /\ Resumed(req[r]).raised) =>
      Responses(r) =
        <<[kind |-> "response", status_code |-> 500,
           content |->
             [detail |-> "Calculation failed: " \o Resumed(req[r]).exc.message]]>>

C4_Witness ==
  \E r \in Requests :
    /\ pc[r] = "responded"
    /\ req[r] = <<Huge, Huge>>
    /\ HasLog(r, "Sum calculated: {result}")
    /\ Responses(r) =
         <<[kind |-> "response", status_code |-> 500,
            content |->
              [detail |-> "Calculation failed: integer division result too large for a float"]]>>

\* C5: two requests with the same body are given the same status and the
\* same response body, whatever was served before and between them.
C5_Idempotent ==
  \A r1, r2 \in Requests :
    (pc[r1] = "responded" /\ pc[r2] = "responded" /\ req[r1] = req[r2]) =>
      Responses(r1) = Responses(r2)

C5_Witness ==
  \E r1, r2 \in Requests :
    /\ r1 # r2
    /\ pc[r1] = "responded" /\ pc[r2] = "responded"
    /\ req[r1] = <<PyInt(3), PyInt(3)>> /\ req[r2] = req[r1]
    /\ Len(Responses(r1)) = 1 /\ Responses(r1)[1].status_code = 200
    /\ Responses(r1) = Responses(r2)

\* C6: process_data_async starts only after validate_input has logged that
\* the validation passed, and whenever the sum and the average are computed
\* the list is non-empty and holds no negative number.
C6_AggregateOnlyAfterValidation ==
  \A r \in Requests :
    /\ \A i \in LogIndexes(r, "Starting async data processing") :
         \E j \in LogIndexes(r, "Input validation passed") : j < i
    /\ HasLog(r, "Calculating sum of {len(numbers)} numbers") =>
         /\ Len(numbers[r]) > 0
         /\ \A i \in 1..Len(numbers[r]) : ~IntIsNegative(numbers[r][i])
         /\ HasLog(r, "Starting async data processing")

C6_Witness ==
  \E r \in Requests :
    /\ pc[r] = "responded"
    /\ Len(req[r]) = 2
    /\ HasLog(r, "Data processing completed: {result}")
    /\ Responses(r)[1].status_code = 200

\* C7, in every state: a request has at most one response, it has one
\* exactly when its handler has ended, the response is the last thing the
\* handler does, and validate_input and process_data_async have each been
\* called at most once.
C7_OneResponse ==
  \A r \in Requests :
    /\ Len(Responses(r)) <= 1
    /\ (pc[r] = "responded") = (Len(Responses(r)) = 1)
    /\ pc[r] = "responded" => events[r][Len(events[r])].kind = "response"
    /\ Cardinality(LogIndexes(r, "Validating input data")) <= 1
    /\ Cardinality(LogIndexes(r, "Starting async data processing")) <= 1
    /\ (pc[r] = "idle") = (events[r] = <<>>)

\* C7, in every step: a handler goes from validation to aggregation to its
\* response, or from validation to its response; after the response nothing
\* more happens for the request.
C7_Step ==
  \A r \in Requests :
    /\ pc[r] = "idle" => pc'[r] \in {"idle", "suspended", "responded"}
    /\ pc[r] = "suspended" => pc'[r] \in {"suspended", "responded"}
    /\ pc[r] = "responded" =>
         \/ pc'[r] = "responded" /\ events'[r] = events[r]
         \/ pc'[r] = "idle"
    /\ (pc[r] = "suspended" /\ pc'[r] = "suspended") => events'[r] = events[r]

\* C7: every request follows Validate -> Aggregate -> Respond or leaves by
\* the error path, ends with exactly one response, and nothing is retried.
C7_TerminatesOnce ==
  /\ []C7_OneResponse
  /\ [][C7_Step]_vars
  /\ \A r \in Requests : (pc[r] = "suspended") ~> (pc[r] = "responded")

C7_Witness ==
  \E r \in Requests :
    /\ pc[r] = "responded"
    /\ req[r] = <<Huge>>
    /\ HasLog(r, "Starting async data processing")
    /\ Len(Responses(r)) = 1
    /\ Responses(r)[1].status_code = 500

\* C8: an error response comes after a logger.error record of the same
\* request, and a request that failed (rejected by the validator, or an
\* exception in the aggregation) has an error response once it has ended.
C8_ErrorLoggedBeforeResponse ==
  \A r \in Requests :
    /\ \A i \in 1..Len(events[r]) :
         IsErrorResponse(events[r][i]) =>
           \E j \in 1..(i - 1) :
             events[r][j].kind = "log" /\ events[r][j].level = "error"
    /\ (pc[r] = "responded" /\ (Rejected(req[r]) \/ Resumed(req[r]).raised)) =>
         \E i \in 1..Len(events[r]) : IsErrorResponse(events[r][i])

C8_Witness ==
  \E r, q \in Requests :
    /\ pc[r] = "responded" /\ Rejected(req[r])
    /\ IsErrorResponse(events[r][Len(events[r])])
    /\ events[r][Len(events[r]) - 1].level = "error"
    /\ pc[q] = "responded" /\ req[q] = <<Huge>>
    /\ IsErrorResponse(events[q][Len(events[q])])
    /\ events[q][Len(events[q]) - 1].level = "error"

\* C9: whatever the order in which the suspended handlers resume, a request
\* is given the response it is given when it runs alone.
C9_AsIfAlone ==
  \A r \in Requests :
    pc[r] = "responded" =>
      Responses(r) = SelectSeq(Alone(req[r]), LAMBDA e : e.kind = "response")

C9_Witness ==
  \E r1, r2 \in Requests :
    /\ pc[r1] = "responded" /\ pc[r2] = "responded"
    /\ interleaved[r1]
    /\ req[r1] = <<PyInt(3), PyInt(0)>>
    /\ req[r2] = <<Huge>>
    /\ Responses(r1)[1].status_code = 200
    /\ Responses(r2)[1].status_code = 500

\* C10: the handler without the suspension (request 1) and the handler as
\* written (the requests beside it) give the same response to the same
\* body.
C10_SuspensionRemovable ==
  \A r \in Requests \ {1} :
    (pc[1] = "responded" /\ pc[r] = "responded" /\ req[r] = req[1]) =>
      Responses(r) = Responses(1)

C10_Witness ==
  \E r \in Requests \ {1} :
    /\ pc[1] = "responded" /\ pc[r] = "responded"
    /\ req[1] = <<PyInt(3), PyInt(3)>> /\ req[r] = req[1]
    /\ Responses(1)[1].status_code = 200
    /\ Responses(r) = Responses(1)

====
